---------------------------- MODULE Spec2Model ----------------------------
(***************************************************************************)
(* Model of src/src/PixpEncoder.js: the PixpEncoder class (addBlock,       *)
(* setStudyMetadata, blocksToBlob and its private helpers) and the         *)
(* PixpDecoder class (blobToBlocks).                                       *)
(*                                                                         *)
(* JavaScript values are modelled as tagged records, strings as sequences  *)
(* of UTF-16 code units, ArrayBuffers as sequences of bytes living in a    *)
(* heap, so that two references to the same ArrayBuffer (the caller's      *)
(* typed array and the encoder's _dataBuffers entry) see the same bytes.   *)
(* Typed arrays are laid out little-endian, as on every mainstream host.   *)
(***************************************************************************)
EXTENDS Integers, Sequences, FiniteSets, TLC

\* ------------------------------------------------------------------ bounds
\* The most blocks one encoder receives.
MaxBlocks == 2
\* The number of elements of the ArrayBuffer the caller owns.
ArrLen == 2
\* The decoder is given the built blob whole, or cut to 0..MaxCut bytes.
MaxCut == 6

\* ------------------------------------------------------- string literals
S_encodingMetadata == <<101, 110, 99, 111, 100, 105, 110, 103, 77, 101, 116, 97, 100, 97, 116, 97>>
S_originalMetadata == <<111, 114, 105, 103, 105, 110, 97, 108, 77, 101, 116, 97, 100, 97, 116, 97>>
S_originalType == <<111, 114, 105, 103, 105, 110, 97, 108, 84, 121, 112, 101>>
S_bytesPerElement == <<98, 121, 116, 101, 115, 80, 101, 114, 69, 108, 101, 109, 101, 110, 116>>
S_dataType == <<100, 97, 116, 97, 84, 121, 112, 101>>
S_signed == <<115, 105, 103, 110, 101, 100>>
S_byteLength == <<98, 121, 116, 101, 76, 101, 110, 103, 116, 104>>
S_blockStarts == <<98, 108, 111, 99, 107, 83, 116, 97, 114, 116, 115>>
S_studyMetadata == <<115, 116, 117, 100, 121, 77, 101, 116, 97, 100, 97, 116, 97>>
S_int == <<105, 110, 116>>
S_float == <<102, 108, 111, 97, 116>>
S_json == <<106, 115, 111, 110>>
\* The texts the callers of this model pass in: "Image2D", "unit", "mm", "name", "a".
S_Image2D == <<73, 109, 97, 103, 101, 50, 68>>
S_unit == <<117, 110, 105, 116>>
S_mm == <<109, 109>>
S_name == <<110, 97, 109, 101>>
S_a == <<97>>
\* The texts JSON.stringify writes for the literals true, false and null.
S_true == <<116, 114, 117, 101>>
S_false == <<102, 97, 108, 115, 101>>
S_null == <<110, 117, 108, 108>>

\* ------------------------------------------------------ JavaScript values
\* t is the value's type; n a number (or 0/1 for a boolean); s a string's
\* code units; kids an array's elements or an object's properties in
\* insertion order (k the property name, v the value).  "cyclic" is an object
\* that holds a reference to itself.
JV(t, n, s, kids) == [t |-> t, n |-> n, s |-> s, kids |-> kids]
JNull == JV("null", 0, <<>>, <<>>)
JUndefined == JV("undefined", 0, <<>>, <<>>)
JCyclic == JV("cyclic", 0, <<>>, <<>>)
JNum(n) == JV("number", n, <<>>, <<>>)
JBool(b) == JV("boolean", IF b THEN 1 ELSE 0, <<>>, <<>>)
JStr(s) == JV("string", 0, s, <<>>)
JArr(elems) == JV("array", 0, <<>>, [i \in 1..Len(elems) |-> [k |-> <<>>, v |-> elems[i]]])
JObj(props) == JV("object", 0, <<>>, props)
Prop(k, v) == [k |-> k, v |-> v]

\* ---------------------------------------------------------- JSON.stringify
\* The decimal digits of a non-negative integer.
RECURSIVE Digits(_)
Digits(n) == IF n < 10 THEN <<48 + n>> ELSE Digits(n \div 10) \o <<48 + (n % 10)>>

\* QuoteJSONString: the text in double quotes, '"' and '\' escaped.
RECURSIVE EscapeChars(_)
EscapeChars(s) ==
    IF s = <<>> THEN <<>>
    ELSE (IF Head(s) \in {34, 92} THEN <<92, Head(s)>> ELSE <<Head(s)>>) \o EscapeChars(Tail(s))

Quote(s) == <<34>> \o EscapeChars(s) \o <<34>>

\* An object graph with a cycle makes JSON.stringify throw a TypeError.
RECURSIVE HasCycle(_)
HasCycle(v) ==
    \/ v.t = "cyclic"
    \/ \E i \in 1..Len(v.kids) : HasCycle(v.kids[i].v)

\* SerializeJSONProperty of a value that is not undefined and holds no cycle.
RECURSIVE Serialize(_)
RECURSIVE SerializeElems(_, _)
RECURSIVE SerializeProps(_, _)
Serialize(v) ==
    CASE v.t = "null" -> S_null
      [] v.t = "boolean" -> IF v.n = 1 THEN S_true ELSE S_false
      [] v.t = "number" -> Digits(v.n)
      [] v.t = "string" -> Quote(v.s)
      [] v.t = "array" -> <<91>> \o SerializeElems(v.kids, TRUE) \o <<93>>
      [] v.t = "object" -> <<123>> \o SerializeProps(v.kids, TRUE) \o <<125>>

\* An array's undefined elements are written null.
SerializeElems(kids, first) ==
    IF kids = <<>> THEN <<>>
    ELSE (IF first THEN <<>> ELSE <<44>>)
         \o (IF Head(kids).v.t = "undefined" THEN S_null ELSE Serialize(Head(kids).v))
         \o SerializeElems(Tail(kids), FALSE)

\* An object's undefined properties are left out.
SerializeProps(kids, first) ==
    IF kids = <<>> THEN <<>>
    ELSE IF Head(kids).v.t = "undefined" THEN SerializeProps(Tail(kids), first)
    ELSE (IF first THEN <<>> ELSE <<44>>)
         \o Quote(Head(kids).k) \o <<58>> \o Serialize(Head(kids).v)
         \o SerializeProps(Tail(kids), FALSE)

\* A JavaScript string, null or undefined.
JsString(chars) == [type |-> "string", chars |-> chars]
JsNull == [type |-> "null", chars |-> <<>>]
JsUndefined == [type |-> "undefined", chars |-> <<>>]

\* _toJsonString: jsonStr stays null when JSON.stringify throws, and is
\* undefined when JSON.stringify returns undefined.
_toJsonString(obj) ==
    IF HasCycle(obj) THEN JsNull
    ELSE IF obj.t = "undefined" THEN JsUndefined
    ELSE JsString(Serialize(obj))

\* ------------------------------------------------------------ typed arrays
\* A Uint16Array (or null): its elements.
NullArray == [isNull |-> TRUE, elems |-> <<>>]
Uint16ArrayOf(elems) == [isNull |-> FALSE, elems |-> elems]

\* _stringToUnicodeBuffer: null for a falsy str (null, undefined, ""), else one
\* 16-bit element per code unit.
_stringToUnicodeBuffer(str) ==
    IF str.type # "string" \/ str.chars = <<>> THEN NullArray
    ELSE Uint16ArrayOf([i \in 1..Len(str.chars) |-> str.chars[i] % 65536])

\* _objectToUnicodeBuffer
_objectToUnicodeBuffer(obj) == _stringToUnicodeBuffer(_toJsonString(obj))

\* The bytes of the ArrayBuffer under a Uint16Array: two per element, low
\* byte first.
BufferOfUint16(elems) ==
    [i \in 1..(2 * Len(elems)) |->
        IF i % 2 = 1 THEN elems[(i + 1) \div 2] % 256 ELSE elems[i \div 2] \div 256]

\* new Uint32Array([n]).buffer: four bytes, low byte first (the byte of
\* weight 2^24 is taken modulo 256, so n wraps at 2^32).
BufferOfUint32(n) ==
    <<n % 256, (n \div 256) % 256, (n \div 65536) % 256, (n \div 16777216) % 256>>

\* The nine typed-array classes _isTypedArray accepts.
TypedArrayKinds ==
    {"Int8Array", "Uint8Array", "Uint8ClampedArray", "Int16Array", "Uint16Array",
     "Int32Array", "Uint32Array", "Float32Array", "Float64Array"}

\* BYTES_PER_ELEMENT of each class.
BYTES_PER_ELEMENT(kind) ==
    CASE kind \in {"Int8Array", "Uint8Array", "Uint8ClampedArray"} -> 1
      [] kind \in {"Int16Array", "Uint16Array"} -> 2
      [] kind \in {"Int32Array", "Uint32Array", "Float32Array"} -> 4
      [] kind = "Float64Array" -> 8

\* What a caller passes as data: a typed array (a view of byteOffset and
\* length elements on the heap's ArrayBuffer buffer) or any other value.
TypedArray(kind, buffer, byteOffset, length) ==
    [typed |-> TRUE, kind |-> kind, buffer |-> buffer, byteOffset |-> byteOffset,
     length |-> length, value |-> JNull]
PlainValue(v) ==
    [typed |-> FALSE, kind |-> "", buffer |-> 0, byteOffset |-> 0, length |-> 0, value |-> v]

\* _isTypedArray
_isTypedArray(obj) == obj.typed /\ obj.kind \in TypedArrayKinds

\* _getTypedArraySpec with the mistake of signed following the class's name:
\* true for Int8Array, Int16Array and Int32Array, false for the Uint classes.
_getTypedArraySpecSignedByName(arr) ==
    [bytesPerElement |-> BYTES_PER_ELEMENT(arr.kind),
     dataType |-> IF arr.kind \in {"Float32Array", "Float64Array"} THEN S_float ELSE S_int,
     signed |-> arr.kind \in {"Int8Array", "Int16Array", "Int32Array"}]

\* _getTypedArraySpec, the instanceof chain in its order.
_getTypedArraySpec(arr) ==
    LET bytesPerElement == BYTES_PER_ELEMENT(arr.kind)
        spec(dataType, signed) ==
            [bytesPerElement |-> bytesPerElement, dataType |-> dataType, signed |-> signed]
    IN  CASE arr.kind = "Int8Array" -> spec(S_int, FALSE)
          [] arr.kind = "Uint8Array" -> spec(S_int, TRUE)
          [] arr.kind = "Uint8ClampedArray" -> spec(S_int, TRUE)
          [] arr.kind = "Int16Array" -> spec(S_int, FALSE)
          [] arr.kind = "Uint16Array" -> spec(S_int, TRUE)
          [] arr.kind = "Int32Array" -> spec(S_int, FALSE)
          [] arr.kind = "Uint32Array" -> spec(S_int, TRUE)
          [] arr.kind = "Float32Array" -> spec(S_float, FALSE)
          [] arr.kind = "Float64Array" -> spec(S_float, FALSE)

\* ------------------------------------------------------------------- state
VARIABLES
    _sidecarBuffers,  \* PixpEncoder: the blocks' sidecar ArrayBuffers (heap addresses)
    _dataBuffers,     \* PixpEncoder: the blocks' data ArrayBuffers (heap addresses)
    _studyMetadata,   \* PixpEncoder: a reference to an object (an index of objects)
    heap,             \* the ArrayBuffers: heap[a] is the bytes of the buffer at address a
    objects,          \* the objects study metadata refers to: objects[r] is the value now
    arr,              \* the typed array the caller holds, a view on its ArrayBuffer
    plain,            \* the value, not a typed array, the caller has to pass as data
    tag,              \* what the caller passes to addBlock as originalType
    lastCall          \* the most recent call and what it returned, threw or logged

vars == <<_sidecarBuffers, _dataBuffers, _studyMetadata, heap, objects, arr, plain, tag,
          lastCall>>

\* The two objects: the {} the constructor makes (the first object there
\* is) and the object the caller passes to setStudyMetadata.
InitialStudyObject == 1
CallerObject == InitialStudyObject + 1

\* The values the caller's study object takes: {"name":"a"} and an object
\* that refers to itself.
StudyValues == {JObj(<<Prop(S_name, JStr(S_a))>>), JCyclic}

\* What the caller passes to addBlock as data besides its typed array
\* (null, 0, "", {"unit":"mm"}, [1,"a"], or an object that refers to
\* itself), as metadata, and as originalType (undefined: the argument is
\* left out).
DataValues ==
    {JNull, JNum(0), JStr(<<>>), JObj(<<Prop(S_unit, JStr(S_mm))>>), JArr(<<JNum(1), JStr(S_a)>>)}
MetadataValues == {JObj(<<Prop(S_unit, JStr(S_mm))>>), JCyclic}
OriginalTypeArgs == {JUndefined, JStr(S_Image2D)}

\* The arguments when there are none to record.
NoArguments ==
    [data |-> PlainValue(JUndefined), metadata |-> JUndefined, originalType |-> JUndefined]

\* What a call leaves behind for the caller: the call and its outcome; for
\* an addBlock that returned, its arguments; for blocksToBlob, the bytes of
\* the Blob and the blockStarts it computed; for blobToBlocks, the bytes it
\* was given, the study sidecar length it read, the text it logged and the
\* blocks it produced.
Call(op, outcome) ==
    [op |-> op, outcome |-> outcome, args |-> NoArguments, blob |-> <<>>,
     blockStarts |-> <<>>, input |-> <<>>, studySidecarLength |-> 0,
     studySidecar |-> <<>>, blocks |-> <<>>]

\* The constructor; the caller holds one typed array of any of the nine
\* classes, over its whole ArrayBuffer or over the elements after the first
\* (new X(buffer, BYTES_PER_ELEMENT)), one other value to pass as data, the
\* originalType it passes, and one object.  The caller's ArrayBuffer is the
\* only one there is: its address is Len(heap).
Init ==
    /\ _sidecarBuffers = <<>>
    /\ _dataBuffers = <<>>
    /\ _studyMetadata = InitialStudyObject
    /\ \E kind \in TypedArrayKinds, skip \in {0, 1} :
          /\ heap = <<[i \in 1..(ArrLen * BYTES_PER_ELEMENT(kind)) |-> i]>>
          /\ arr = TypedArray(kind, Len(heap), skip * BYTES_PER_ELEMENT(kind), ArrLen - skip)
    /\ plain \in DataValues
    /\ tag \in OriginalTypeArgs
    /\ objects = <<JObj(<<>>), JObj(<<Prop(S_name, JStr(S_a))>>)>>
    /\ lastCall = Call("constructor", "returned")

\* ----------------------------------------------------------------- addBlock
\* Array.prototype.push on _sidecarBuffers, with the mistake of unshift.
UnshiftSidecarBuffer(list, sidecarBuffer) == <<sidecarBuffer>> \o list

PushSidecarBuffer(list, sidecarBuffer) == Append(list, sidecarBuffer)

\* Array.prototype.push on _dataBuffers, with the mistake of a lost push.
NoPushDataBuffer(list, dataBuffer) == list

PushDataBuffer(list, dataBuffer) == Append(list, dataBuffer)

\* The encoding object, its properties in the order addBlock sets them.
Encoding(originalType, bytesPerElement, dataType, signed, byteLength) ==
    JObj(<<Prop(S_originalType, originalType),
           Prop(S_bytesPerElement, JNum(bytesPerElement)),
           Prop(S_dataType, JStr(dataType)),
           Prop(S_signed, JBool(signed)),
           Prop(S_byteLength, JNum(byteLength))>>)

Sidecar(encoding, metadata) ==
    JObj(<<Prop(S_encodingMetadata, encoding), Prop(S_originalMetadata, metadata)>>)

\* addBlock(data, metadata, originalType = null).  Reading .buffer of the null
\* that _objectToUnicodeBuffer returns throws a TypeError, before any push.
addBlock(data, metadata, originalTypeArg) ==
    /\ Len(_dataBuffers) < MaxBlocks
    /\ LET originalType == IF originalTypeArg.t = "undefined" THEN JNull ELSE originalTypeArg
           isTyped == _isTypedArray(data)
           spec == _getTypedArraySpec(data)
           dataUnicode == _objectToUnicodeBuffer(data.value)
           dataThrows == ~isTyped /\ dataUnicode.isNull
           heap1 == IF isTyped THEN heap ELSE Append(heap, BufferOfUint16(dataUnicode.elems))
           dataBuffer == IF isTyped THEN data.buffer ELSE Len(heap1)
           encoding ==
               IF isTyped
               THEN Encoding(originalType, spec.bytesPerElement, spec.dataType, spec.signed,
                             Len(heap1[dataBuffer]))
               ELSE Encoding(originalType, 2, S_json, FALSE, Len(heap1[dataBuffer]))
           sidecarUnicode == _objectToUnicodeBuffer(Sidecar(encoding, metadata))
           heap2 == Append(heap1, BufferOfUint16(sidecarUnicode.elems))
           sidecarBuffer == Len(heap2)
       IN  IF dataThrows \/ sidecarUnicode.isNull
           THEN /\ lastCall' = Call("addBlock", "TypeError")
                /\ UNCHANGED <<_sidecarBuffers, _dataBuffers, heap>>
           ELSE /\ _sidecarBuffers' = PushSidecarBuffer(_sidecarBuffers, sidecarBuffer)
                /\ _dataBuffers' = PushDataBuffer(_dataBuffers, dataBuffer)
                /\ heap' = heap2
                /\ lastCall' = [Call("addBlock", "returned") EXCEPT
                                   !.args = [data |-> data, metadata |-> metadata,
                                             originalType |-> originalTypeArg]]
    /\ UNCHANGED <<_studyMetadata, objects, arr, plain, tag>>

\* --------------------------------------------------------- setStudyMetadata
\* setStudyMetadata(obj): the reference is kept, the object is not copied.
setStudyMetadata(obj) ==
    /\ _studyMetadata' = obj
    /\ lastCall' = Call("setStudyMetadata", "returned")
    /\ UNCHANGED <<_sidecarBuffers, _dataBuffers, heap, objects, arr, plain, tag>>

\* ------------------------------------------------------------- blocksToBlob
\* The loop that fills blockStarts, with the mistake of leaving out the 4
\* bytes of each sidecar length.
RECURSIVE BlockStartsLoopWithoutHeader(_, _, _, _)
BlockStartsLoopWithoutHeader(i, bufferPosition, sidecarLengths, dataLengths) ==
    IF i > Len(dataLengths) THEN <<>>
    ELSE <<bufferPosition>>
         \o BlockStartsLoopWithoutHeader(i + 1, bufferPosition + (sidecarLengths[i] + dataLengths[i]),
                                         sidecarLengths, dataLengths)

BlockStartsWithoutHeader(sidecarLengths, dataLengths) ==
    BlockStartsLoopWithoutHeader(1, 0, sidecarLengths, dataLengths)

\* The loop that fills blockStarts, from block i at bufferPosition.
RECURSIVE BlockStartsLoop(_, _, _, _)
BlockStartsLoop(i, bufferPosition, sidecarLengths, dataLengths) ==
    IF i > Len(dataLengths) THEN <<>>
    ELSE <<bufferPosition>>
         \o BlockStartsLoop(i + 1, bufferPosition + (sidecarLengths[i] + dataLengths[i]) + 4,
                            sidecarLengths, dataLengths)

BlockStarts(sidecarLengths, dataLengths) == BlockStartsLoop(1, 0, sidecarLengths, dataLengths)

\* The parts of blobArray that the second loop pushes, from block i on.
RECURSIVE BlockParts(_, _, _, _)
BlockParts(i, sidecarBuffers, dataBuffers, h) ==
    IF i > Len(dataBuffers) THEN <<>>
    ELSE BufferOfUint32(Len(h[sidecarBuffers[i]])) \o h[sidecarBuffers[i]] \o h[dataBuffers[i]]
         \o BlockParts(i + 1, sidecarBuffers, dataBuffers, h)

\* !studySidecarBuffer, of an ArrayBuffer: an object is never falsy.
ArrayBufferIsFalsy(buffer) == FALSE

\* blocksToBlob().  A study sidecar that cannot be serialized throws at the
\* read of .buffer, before the check that would return.
blocksToBlob ==
    /\ LET lengths(list) == [i \in 1..Len(list) |-> Len(heap[list[i]])]
           blockStarts == BlockStarts(lengths(_sidecarBuffers), lengths(_dataBuffers))
           studySidecar ==
               JObj(<<Prop(S_blockStarts, JArr([i \in 1..Len(blockStarts) |-> JNum(blockStarts[i])])),
                      Prop(S_studyMetadata, objects[_studyMetadata])>>)
           studySidecarUnicode == _objectToUnicodeBuffer(studySidecar)
           studySidecarBuffer == BufferOfUint16(studySidecarUnicode.elems)
       IN  lastCall' =
             IF Len(_sidecarBuffers) # Len(_dataBuffers)
             THEN Call("blocksToBlob", "returned undefined: counts differ")
             ELSE IF studySidecarUnicode.isNull
             THEN Call("blocksToBlob", "TypeError")
             ELSE IF ArrayBufferIsFalsy(studySidecarBuffer)
             THEN Call("blocksToBlob", "returned undefined: cannot create blob")
             ELSE [Call("blocksToBlob", "returned") EXCEPT
                      !.blockStarts = blockStarts,
                      !.blob = BufferOfUint32(Len(studySidecarBuffer)) \o studySidecarBuffer
                               \o BlockParts(1, _sidecarBuffers, _dataBuffers, heap)]
    /\ UNCHANGED <<_sidecarBuffers, _dataBuffers, _studyMetadata, heap, objects, arr, plain,
                   tag>>

\* ------------------------------------------------- PixpDecoder.blobToBlocks
\* ArrayBuffer.prototype.slice(begin, end), both clamped to the length.
Slice(buffer, begin, end) ==
    LET first == IF begin < Len(buffer) THEN begin ELSE Len(buffer)
        final == IF end < Len(buffer) THEN end ELSE Len(buffer)
    IN  IF final > first THEN SubSeq(buffer, first + 1, final) ELSE <<>>

\* new Uint16Array(buffer) of a buffer of even length.
Uint16ElementsOf(buffer) ==
    [i \in 1..(Len(buffer) \div 2) |-> buffer[2 * i - 1] + 256 * buffer[2 * i]]

\* DataView.prototype.getUint32(byteOffset) of a view that starts viewOffset
\* bytes into buffer: no littleEndian argument, so the high byte is first.
GetUint32(buffer, viewOffset, byteOffset) ==
    LET at(k) == buffer[viewOffset + byteOffset + k]
    IN  at(1) * 16777216 + at(2) * 65536 + at(3) * 256 + at(4)

\* The byteOffset new DataView(inputBuffer, true) gets: ToIndex(true).
DataViewByteOffset == 1

\* fileReader.onload on the bytes of a blob: the blob that blocksToBlob just
\* returned, whole (cut = its length) or cut to its first cut bytes.  The
\* function ends after it has logged the study sidecar: it reads no block.
blobToBlocks(cut) ==
    /\ lastCall.blob # <<>>
    /\ cut <= Len(lastCall.blob)
    /\ LET inputBuffer == SubSeq(lastCall.blob, 1, cut)
           viewLength == Len(inputBuffer) - DataViewByteOffset
           studySidecarLength == GetUint32(inputBuffer, DataViewByteOffset, 0)
           sliced == Slice(inputBuffer, 4, 4 + studySidecarLength)
           done(outcome) ==
               [Call("blobToBlocks", outcome) EXCEPT !.blob = lastCall.blob,
                                                      !.blockStarts = lastCall.blockStarts,
                                                      !.input = inputBuffer]
       IN  lastCall' =
             IF DataViewByteOffset > Len(inputBuffer) THEN done("RangeError")
             ELSE IF 4 > viewLength THEN done("RangeError")
             ELSE IF Len(sliced) % 2 # 0
             THEN [done("RangeError") EXCEPT !.studySidecarLength = studySidecarLength]
             ELSE [done("logged") EXCEPT !.studySidecarLength = studySidecarLength,
                                         !.studySidecar = Uint16ElementsOf(sliced),
                                         !.blocks = <<>>]
    /\ UNCHANGED <<_sidecarBuffers, _dataBuffers, _studyMetadata, heap, objects, arr, plain,
                   tag>>

\* --------------------------------------------------------------- the caller
\* arr[arr.length - 1] = x, with x the element whose bytes are all 255.
CallerWritesElement ==
    /\ LET w == BYTES_PER_ELEMENT(arr.kind)
           from == arr.byteOffset + (arr.length - 1) * w
       IN  heap' = [heap EXCEPT ![arr.buffer] =
                       [i \in 1..Len(@) |-> IF i > from /\ i <= from + w THEN 255 ELSE @[i]]]
    /\ heap' # heap
    /\ lastCall' = Call("caller", "wrote")
    /\ UNCHANGED <<_sidecarBuffers, _dataBuffers, _studyMetadata, objects, arr, plain, tag>>

\* The caller changes the object it passes to setStudyMetadata.
CallerMutatesObject(v) ==
    /\ objects[CallerObject] # v
    /\ objects' = [objects EXCEPT ![CallerObject] = v]
    /\ lastCall' = Call("caller", "mutated")
    /\ UNCHANGED <<_sidecarBuffers, _dataBuffers, _studyMetadata, heap, arr, plain, tag>>

\* One encoder and its caller.
EncoderNext ==
    \/ \E data \in {arr, PlainValue(plain), PlainValue(JCyclic)}, metadata \in MetadataValues :
          addBlock(data, metadata, tag)
    \/ setStudyMetadata(CallerObject)
    \/ blocksToBlob
    \/ CallerWritesElement
    \/ \E v \in StudyValues : CallerMutatesObject(v)

EncoderSpec == Init /\ [][EncoderNext]_vars

\* The encoder, its caller, and a decoder given the blobs the encoder builds.
Next ==
    \/ EncoderNext
    \/ \E cut \in (0..MaxCut) \cup {Len(lastCall.blob)} : blobToBlocks(cut)

Spec == Init /\ [][Next]_vars

\* ---------------------------------------------------------------- claims
\* Reading helpers of the statements below: a little-endian uint32 at byte
\* offset at, the last element of a list, the blocks' byte lengths.
Uint32LE(bytes, at) ==
    bytes[at + 1] + 256 * bytes[at + 2] + 65536 * bytes[at + 3] + 16777216 * bytes[at + 4]

Last(list) == list[Len(list)]

\* The bytes a typed array shows: length elements from byteOffset on.
ViewBytes(a, h) ==
    SubSeq(h[a.buffer], a.byteOffset + 1, a.byteOffset + a.length * BYTES_PER_ELEMENT(a.kind))

Returned(op) == lastCall.op = op /\ lastCall.outcome = "returned"

SidecarLength(k) == Len(heap[_sidecarBuffers[k]])
DataLength(k) == Len(heap[_dataBuffers[k]])

\* The sum over k < i of 4 + sidecarLen_k + dataLen_k.
RECURSIVE BytesBefore(_)
BytesBefore(i) ==
    IF i <= 1 THEN 0 ELSE BytesBefore(i - 1) + (4 + SidecarLength(i - 1) + DataLength(i - 1))

\* The numbers of a JSON text that starts {"blockStarts":[ and lists
\* decimal numbers up to the closing bracket (<<-1>> for any other text).
RECURSIVE ParseNumberList(_, _, _, _, _)
ParseNumberList(text, pos, acc, cur, inNumber) ==
    IF pos > Len(text) THEN <<-1>>
    ELSE IF text[pos] = 93 THEN (IF inNumber THEN Append(acc, cur) ELSE acc)
    ELSE IF text[pos] = 44 /\ inNumber THEN ParseNumberList(text, pos + 1, Append(acc, cur), 0, FALSE)
    ELSE IF text[pos] \in 48..57
    THEN ParseNumberList(text, pos + 1, acc, 10 * cur + (text[pos] - 48), TRUE)
    ELSE <<-1>>

ParseBlockStarts(text) ==
    LET prefix == <<123, 34>> \o S_blockStarts \o <<34, 58, 91>>
    IN  IF Len(text) > Len(prefix) /\ SubSeq(text, 1, Len(prefix)) = prefix
        THEN ParseNumberList(text, Len(prefix) + 1, <<>>, 0, FALSE)
        ELSE <<-1>>

\* The study sidecar frame of the blob that was built: its declared length
\* and its text.
BuiltL0 == Uint32LE(lastCall.blob, 0)
BuiltStudyText == Uint16ElementsOf(SubSeq(lastCall.blob, 5, 4 + BuiltL0))

\* C1: decoding the whole blob that blocksToBlob built yields the study
\* sidecar the encoder serialized (so the original study metadata) and
\* exactly the N blocks, in order, each with its sidecar and raw data.
C1_RoundTrip ==
    (lastCall.op = "blobToBlocks" /\ lastCall.input = lastCall.blob) =>
        /\ lastCall.outcome = "logged"
        /\ lastCall.studySidecar = BuiltStudyText
        /\ Len(lastCall.blocks) = Len(_dataBuffers)
        /\ \A i \in 1..Len(_dataBuffers) :
              /\ lastCall.blocks[i].sidecar = heap[_sidecarBuffers[i]]
              /\ lastCall.blocks[i].data = heap[_dataBuffers[i]]

\* C2: in every blob that blocksToBlob builds from n blocks, the blockStarts
\* written in the study sidecar has n entries, entry i is the sum over k < i
\* of 4 + sidecarLen_k + dataLen_k, and at that offset after the study
\* sidecar frame the blob holds block i's 4-byte sidecar length, then its
\* sidecar, then its raw data; the table starts at 0, is strictly
\* increasing, and is empty when n = 0.
C2_OffsetCorrectness ==
    Returned("blocksToBlob") =>
        LET blob == lastCall.blob
            base == 4 + BuiltL0
            table == ParseBlockStarts(BuiltStudyText)
            n == Len(_dataBuffers)
        IN  /\ Len(table) = n
            /\ table = lastCall.blockStarts
            /\ n = 0 => table = <<>>
            /\ n >= 1 => table[1] = 0
            /\ \A i \in 1..n :
                  /\ table[i] = BytesBefore(i)
                  /\ i > 1 => table[i] > table[i - 1]
                  /\ Uint32LE(blob, base + table[i]) = SidecarLength(i)
                  /\ SubSeq(blob, base + table[i] + 4 + 1, base + table[i] + 4 + SidecarLength(i))
                       = heap[_sidecarBuffers[i]]
                  /\ SubSeq(blob, base + table[i] + 4 + SidecarLength(i) + 1,
                            base + table[i] + 4 + SidecarLength(i) + DataLength(i))
                       = heap[_dataBuffers[i]]
            /\ Len(blob) = base + BytesBefore(n + 1)

C2_Witness ==
    /\ Returned("blocksToBlob")
    /\ Len(lastCall.blockStarts) = 2
    /\ lastCall.blockStarts[2] > 0
    /\ DataLength(1) # DataLength(2)

\* C3: given a whole blob that blocksToBlob built, the decoder reads as
\* studySidecarLength the little-endian uint32 the encoder wrote in bytes
\* [0,4), and recovers the text of bytes [4, 4 + studySidecarLength).
C3_DecoderReadsStudySidecar ==
    (lastCall.op = "blobToBlocks" /\ lastCall.input = lastCall.blob) =>
        /\ lastCall.studySidecarLength = BuiltL0
        /\ lastCall.studySidecar = BuiltStudyText

\* C4: given a built blob cut inside the study sidecar's length field or
\* inside the study sidecar's payload, the decoder fails, and produces no
\* study sidecar.
C4_TruncationRejected ==
    (lastCall.op = "blobToBlocks" /\ Len(lastCall.input) < 4 + BuiltL0) =>
        /\ lastCall.outcome = "RangeError"
        /\ lastCall.studySidecar = <<>>

\* C5: when the study metadata cannot be serialized, blocksToBlob returns no
\* blob after its 'cannot create blob' check, and fails in no other way.
C5_SerializationFailureReturned ==
    (lastCall.op = "blocksToBlob" /\ HasCycle(objects[_studyMetadata])) =>
        lastCall.outcome = "returned undefined: cannot create blob"

\* The descriptor the claim gives each class: "int" for the seven integer
\* classes and "float" for the two float classes, the element width, and
\* signed false for Int8/Int16/Int32 and the floats, true for the Uint ones.
ClaimedDataType(kind) ==
    IF kind \in {"Int8Array", "Uint8Array", "Uint8ClampedArray", "Int16Array", "Uint16Array",
                 "Int32Array", "Uint32Array"}
    THEN S_int ELSE S_float

ClaimedWidth(kind) ==
    IF kind \in {"Int8Array", "Uint8Array", "Uint8ClampedArray"} THEN 1
    ELSE IF kind \in {"Int16Array", "Uint16Array"} THEN 2
    ELSE IF kind = "Float64Array" THEN 8 ELSE 4

ClaimedSigned(kind) == kind \in {"Uint8Array", "Uint8ClampedArray", "Uint16Array", "Uint32Array"}

C7_RawDataIsInputBytes ==
    Returned("addBlock") =>
        LET data == lastCall.args.data
            rawData == heap[Last(_dataBuffers)]
        IN  IF data.typed
            THEN /\ rawData = ViewBytes(data, heap)
                 /\ Len(rawData) = data.length * ClaimedWidth(data.kind)
            ELSE /\ Uint16ElementsOf(rawData) = Serialize(data.value)
                 /\ Len(rawData) = 2 * Len(Serialize(data.value))

\* C8: an addBlock that returns lengthens both lists by one, puts the new
\* pair at the end, leaves every earlier sidecar and data buffer at its
\* index with its content, and leaves the study metadata alone; no call on
\* the encoder removes or reorders a block; and a built blob holds the
\* blocks in the lists' order.
C8_AppendOnly ==
    [][LET n == Len(_dataBuffers)
           kept(i) ==
               /\ heap'[_sidecarBuffers'[i]] = heap[_sidecarBuffers[i]]
               /\ heap'[_dataBuffers'[i]] = heap[_dataBuffers[i]]
       IN  /\ (lastCall'.op = "addBlock" /\ lastCall'.outcome = "returned") =>
                 /\ Len(_sidecarBuffers') = Len(_sidecarBuffers) + 1
                 /\ Len(_dataBuffers') = n + 1
                 /\ \A i \in 1..n : kept(i)
                 /\ _sidecarBuffers'[n + 1] > Len(heap)
                 /\ IF lastCall'.args.data.typed
                    THEN _dataBuffers'[n + 1] = lastCall'.args.data.buffer
                    ELSE _dataBuffers'[n + 1] > Len(heap)
                 /\ _studyMetadata' = _studyMetadata
                 /\ objects' = objects
           /\ lastCall'.op \in {"addBlock", "setStudyMetadata", "blocksToBlob"} =>
                 /\ Len(_sidecarBuffers') >= Len(_sidecarBuffers)
                 /\ Len(_dataBuffers') >= n
                 /\ \A i \in 1..n : kept(i)
           /\ (lastCall'.op = "blocksToBlob" /\ lastCall'.outcome = "returned") =>
                 lastCall'.blob =
                     SubSeq(lastCall'.blob, 1, 4 + Uint32LE(lastCall'.blob, 0))
                     \o BlockParts(1, _sidecarBuffers, _dataBuffers, heap)
      ]_vars

C8_Witness ==
    /\ Returned("addBlock")
    /\ Len(_sidecarBuffers) = 2
    /\ Len(_dataBuffers) = 2
    /\ _studyMetadata = CallerObject

\* C9: the lists of sidecar buffers and of data buffers always have the
\* same length, an addBlock that fails leaves both as they were, and
\* blocksToBlob never finds the counts to differ.
C9_ListsInStep ==
    [][/\ Len(_sidecarBuffers') = Len(_dataBuffers')
       /\ (lastCall'.op = "addBlock" /\ lastCall'.outcome = "TypeError") =>
             /\ _sidecarBuffers' = _sidecarBuffers
             /\ _dataBuffers' = _dataBuffers
             /\ heap' = heap
       /\ lastCall'.outcome # "returned undefined: counts differ"
      ]_vars

C9_Witness ==
    /\ lastCall.op = "addBlock"
    /\ lastCall.outcome = "TypeError"
    /\ Len(_sidecarBuffers) = 1
    /\ Len(_dataBuffers) = 1

\* C10: what the encoder holds changes only through addBlock and
\* setStudyMetadata: a write of the caller to a typed array it has passed to
\* addBlock, or to the object it has passed to setStudyMetadata, changes
\* neither the blocks' raw data nor the study metadata that blocksToBlob
\* will write.
C10_EncoderOwnsItsState ==
    [][lastCall'.op = "caller" =>
          /\ \A i \in 1..Len(_dataBuffers) : heap'[_dataBuffers[i]] = heap[_dataBuffers[i]]
          /\ objects'[_studyMetadata] = objects[_studyMetadata]
      ]_vars

=============================================================================
